---- MODULE Spec2Model ----
(***************************************************************************)
(* Model of homework.py: the polling loop of main() with check_tokens,     *)
(* get_api_answer, check_response, parse_status and send_message.          *)
(*                                                                         *)
(* Python values are modelled as follows.                                  *)
(*   - None is the sentinel string None; Str(v) is what an f-string makes  *)
(*     of v.                                                               *)
(*   - a JSON value is a record [type, val]: Dict(f) holds a TLA+ record   *)
(*     whose DOMAIN is the dict's key set, List(s) holds a sequence.       *)
(*   - an exception is a record [type, arg]; PyStr(e) is str(e).           *)
(*   - a call either returns or raises: Return(v) / Raise(e).              *)
(* The Russian message texts of the source are rendered in ASCII.          *)
(***************************************************************************)
EXTENDS Integers, Sequences, FiniteSets, TLC

VARIABLES
    tokens,       \* PRACTICUM_TOKEN, TELEGRAM_TOKEN, TELEGRAM_CHAT_ID (module scope)
    pc,           \* position of main: start, try, except, finally, aborted, crashed
    exit,         \* the exception that ended main, NoError while it runs
    critical,     \* text logged by logger.critical, None if nothing was logged
    timestamp,    \* main's local timestamp
    last_error,   \* main's local last_error
    last_status,  \* main's local last_status
    response,     \* main's local response in the current cycle
    error,        \* the exception raised in the current cycle, NoError if none
    propagating,  \* TRUE while an exception of the current cycle is unhandled
    calls,        \* the send_message calls of the current cycle, in order
    delivered,    \* the text most recently delivered to the chat, None if none
    old,          \* timestamp, last_status, last_error, delivered at cycle start
    prev,         \* what the previous cycle delivered
    effects,      \* which of fetch, send, sleep main has ever performed
    fetches,      \* the number of get_api_answer calls since the last sleep
    sleeps,       \* the periods of the time.sleep calls since the last fetch
    api_answer,   \* the answer the API holds ready, where the API is a process
    fn_arg,       \* the argument of a function that is applied on its own
    fn_result     \* what that function returned or raised

vars == <<tokens, pc, exit, critical, timestamp, last_error, last_status,
          response, error, propagating, calls, delivered, old, prev, effects,
          fetches, sleeps, api_answer, fn_arg, fn_result>>

----------------------------------------------------------------------------
\* Bounds of the model.

\* current_date values returned by the API are 0..MaxDate
MaxDate == 2
\* the homeworks list of a response has at most MaxHomeworks records
MaxHomeworks == 2

----------------------------------------------------------------------------
\* Python values.

None == "<None>"

Str(v) ==
    IF v = None THEN "None" ELSE v

Truthy(v) ==
    v # None /\ v # ""

Dict(f) ==
    [type |-> "dict", val |-> f]

List(s) ==
    [type |-> "list", val |-> s]

\* dict.get(key): None when the key is absent
Get(d, key) ==
    IF key \in DOMAIN d.val THEN d.val[key] ELSE None

\* dict.get(key, default)
GetDefault(d, key, default) ==
    IF key \in DOMAIN d.val THEN d.val[key] ELSE default

Exc(type, arg) ==
    [type |-> type, arg |-> arg]

NoError == Exc("None", "")

\* str(error): a KeyError shows the repr of its argument
PyStr(e) ==
    IF e.type = "KeyError" THEN "'" \o e.arg \o "'" ELSE e.arg

Raise(e) ==
    [exc |-> e]

Return(v) ==
    [exc |-> NoError, ret |-> v]

Raised(r) ==
    r.exc # NoError

\* an index counted from the end of the list, as list[-1 - i]
GetItemFromEnd(list, i) ==
    IF i < Len(list.val)
    THEN Return(list.val[Len(list.val) - i])
    ELSE Raise(Exc("IndexError", "list index out of range"))

\* list[i], with Python's 0-based index
GetItem(list, i) ==
    IF i < Len(list.val)
    THEN Return(list.val[i + 1])
    ELSE Raise(Exc("IndexError", "list index out of range"))

RECURSIVE Join(_, _)
Join(names, sep) ==
    IF names = <<>> THEN ""
    ELSE IF Len(names) = 1 THEN names[1]
    ELSE names[1] \o sep \o Join(Tail(names), sep)

----------------------------------------------------------------------------
\* Module-level constants of homework.py.

RETRY_PERIOD == 600

HTTP_OK == 200

ENDPOINT == "https://practicum.yandex.ru/api/user_api/homework_statuses/"

HOMEWORK_VERDICTS ==
    [approved  |-> "Work checked: the reviewer liked everything. Hooray!",
     reviewing |-> "Work taken for review by the reviewer.",
     rejected  |-> "Work checked: the reviewer has remarks."]

\* a handler that catches the errors of get_api_answer only
ApiExceptionClasses ==
    {"ConnectionError", "InvalidResponseCodeError"}

\* the classes caught by "except Exception"
ExceptionClasses ==
    {"ConnectionError", "InvalidResponseCodeError", "JSONDecodeError",
     "TypeError", "KeyError", "ValueError", "AttributeError", "IndexError"}

----------------------------------------------------------------------------
\* check_tokens and the exceptions of exceptions.py.

TokenNames == <<"PRACTICUM_TOKEN", "TELEGRAM_TOKEN", "TELEGRAM_CHAT_ID">>

\* os.getenv gives None for an unset variable, and a variable may be set empty
TokenValues == {None, "", "secret"}

MissingText(missing) ==
    "Missing required environment variables: " \o Join(missing, ", ")

\* exceptions.py: the typed error carries the names and the joined message
MissingEnvironmentVariableError(missing) ==
    [type |-> "MissingEnvironmentVariableError",
     arg |-> MissingText(missing),
     missing |-> missing]

\* a check that finds the unset variables but not the empty ones
MissingTokensUnsetOnly(toks) ==
    SelectSeq(TokenNames, LAMBDA name : toks[name] = None)

\* the names whose value is falsy, in the order of the tokens dict
MissingTokens(toks) ==
    SelectSeq(TokenNames, LAMBDA name : ~Truthy(toks[name]))

\* logs every missing name at critical level and leaves through sys.exit
check_tokens(toks) ==
    LET missing == MissingTokens(toks)
    IN  IF missing # <<>>
        THEN [exc |-> Exc("SystemExit", "Program forcibly stopped."),
              critical |-> MissingText(missing)]
        ELSE [exc |-> NoError, critical |-> None]

----------------------------------------------------------------------------
\* send_message.

\* what bot.send_message does with the message
Transports == {"sent", "raises"}

\* a notifier that lets the exception of the transport through
send_message_raising(transport) ==
    IF transport = "raises"
    THEN Raise(Exc("ConnectionError", "telegram is unreachable"))
    ELSE Return(TRUE)

\* a notifier that reports success whatever the transport did
send_message_optimistic(transport) ==
    Return(TRUE)

\* every Exception of the transport is caught and turned into False
send_message(transport) ==
    IF transport = "raises" THEN Return(FALSE) ELSE Return(TRUE)

----------------------------------------------------------------------------
\* get_api_answer.

\* what requests.get does: it raises a RequestException or gives a response
\* with status_code, reason, text and a body that json() parses or rejects
HttpResponse(code, reason, text, json) ==
    [kind |-> "response", status_code |-> code, reason |-> reason,
     text |-> text, json |-> json]

InvalidJson == [type |-> "invalid", val |-> <<>>]

ParamsText(t) ==
    "URL: " \o ENDPOINT \o ", headers: HEADERS, params: {'from_date': "
        \o ToString(t) \o "}"

get_api_answer(t, api) ==
    IF api.kind = "RequestException"
    THEN Raise(Exc("ConnectionError",
                   "API connection error: " \o api.cause \o ". " \o ParamsText(t)))
    ELSE IF api.status_code # HTTP_OK
    THEN Raise(Exc("InvalidResponseCodeError",
                   "Invalid API response code: " \o ToString(api.status_code)
                       \o ". Reason: " \o api.reason \o ". Text: " \o api.text))
    ELSE IF api.json.type = "invalid"
    THEN Raise(Exc("JSONDecodeError", "Expecting value: line 1 column 1 (char 0)"))
    ELSE Return(api.json)

----------------------------------------------------------------------------
\* check_response.

\* a validator without the check of lines 118-119
check_response_any_homeworks(resp) ==
    IF resp.type # "dict"
    THEN Raise(Exc("TypeError", "API response is not a dict"))
    ELSE IF "homeworks" \notin DOMAIN resp.val
    THEN Raise(Exc("KeyError", "Required key homeworks is missing in API response"))
    ELSE Return(resp.val.homeworks)

check_response(resp) ==
    IF resp.type # "dict"
    THEN Raise(Exc("TypeError", "API response is not a dict"))
    ELSE IF "homeworks" \notin DOMAIN resp.val
    THEN Raise(Exc("KeyError", "Required key homeworks is missing in API response"))
    ELSE IF resp.val.homeworks.type # "list"
    THEN Raise(Exc("TypeError", "homeworks is not a list"))
    ELSE Return(resp.val.homeworks)

----------------------------------------------------------------------------
\* parse_status.

StatusText(name, verdict) ==
    "Status of homework check changed \"" \o name \o "\". " \o verdict

\* a formatter that looks at the status before it looks at the name
parse_status_status_first(homework) ==
    IF homework.type # "dict"
    THEN Raise(Exc("AttributeError",
                   "'" \o homework.type \o "' object has no attribute 'get'"))
    ELSE LET homework_name == Get(homework, "homework_name")
             status == Get(homework, "status")
         IN  IF status \notin DOMAIN HOMEWORK_VERDICTS
             THEN Raise(Exc("ValueError",
                            "Unexpected homework status: " \o Str(status)))
             ELSE IF ~Truthy(homework_name)
             THEN Raise(Exc("KeyError", "Missing key homework_name"))
             ELSE Return(StatusText(homework_name, HOMEWORK_VERDICTS[status]))

parse_status(homework) ==
    IF homework.type # "dict"
    THEN Raise(Exc("AttributeError",
                   "'" \o homework.type \o "' object has no attribute 'get'"))
    ELSE LET homework_name == Get(homework, "homework_name")
             status == Get(homework, "status")
         IN  IF ~Truthy(homework_name)
             THEN Raise(Exc("KeyError", "Missing key homework_name"))
             ELSE IF status \notin DOMAIN HOMEWORK_VERDICTS
             THEN Raise(Exc("ValueError",
                            "Unexpected homework status: " \o Str(status)))
             ELSE Return(StatusText(homework_name, HOMEWORK_VERDICTS[status]))

----------------------------------------------------------------------------
\* The inputs of a cycle: what the API and the bot transport may do.

\* a homework record; a name or status of None is an absent key
Homework(name, status) ==
    IF name = None /\ status = None THEN Dict([id |-> 1])
    ELSE IF name = None THEN Dict([id |-> 1, status |-> status])
    ELSE IF status = None THEN Dict([id |-> 1, homework_name |-> name])
    ELSE Dict([id |-> 1, homework_name |-> name, status |-> status])

\* first records: every verdict for two names, and each way of being invalid
FirstRecords ==
    {Homework(n, s) : n \in {"hw1", "hw2"}, s \in DOMAIN HOMEWORK_VERDICTS}
        \cup {Homework(None, "approved"), Homework("", "approved"),
              Homework("hw1", None), Homework("hw1", "unknown"), List(<<>>)}

\* the records that may follow the first one
RestRecords ==
    {Homework("hw0", "reviewing"), List(<<>>)}

HomeworkLists ==
    {<<>>} \cup
    {<<f>> \o r : f \in FirstRecords,
                  r \in UNION {[1..n -> RestRecords] : n \in 0..(MaxHomeworks - 1)}}

Payloads ==
    {Dict([homeworks |-> List(l), current_date |-> d]) :
        l \in HomeworkLists, d \in 0..MaxDate}
        \cup {Dict([homeworks |-> List(l)]) : l \in HomeworkLists}
        \cup {List(<<>>),
              Dict([current_date |-> 0]),
              Dict([homeworks |-> Dict([id |-> 1]), current_date |-> 0])}

ApiOutcomes ==
    {[kind |-> "RequestException", cause |-> "timed out"]}
        \cup {HttpResponse(503, "Service Unavailable", "unavailable", InvalidJson)}
        \cup {HttpResponse(HTTP_OK, "OK", "body", j) : j \in Payloads \cup {InvalidJson}}

\* a valid response with the homeworks l and, unless d is negative, the
\* current_date d, as the API answers it
Answer(l, d) ==
    HttpResponse(HTTP_OK, "OK", "body",
                 IF d < 0 THEN Dict([homeworks |-> List(l)])
                 ELSE Dict([homeworks |-> List(l), current_date |-> d]))

\* int(time.time()) when main starts
StartTimes == {1}

\* JSON values that are neither a dict nor a list
Text(t) == [type |-> "str", val |-> t]

Null == [type |-> "null", val |-> <<>>]

\* what the homeworks key of a response may hold
HomeworksValues ==
    {List(l) : l \in HomeworkLists} \cup {Dict([id |-> 1]), Text("x"), Null}

\* the arguments check_response is applied to on its own
ResponseInputs ==
    {List(<<>>), List(<<Homework("hw1", "approved")>>), Text("homeworks"), Null,
     Dict([current_date |-> 0]), Dict([homework |-> List(<<>>)])}
        \cup {Dict([homeworks |-> h]) : h \in HomeworksValues}
        \cup {Dict([homeworks |-> h, current_date |-> d]) :
                 h \in HomeworksValues, d \in 0..MaxDate}

\* the arguments parse_status is applied to on its own
HomeworkInputs ==
    {Homework(n, s) :
        n \in {None, "", "hw1", "hw2"},
        s \in {None, "", "unknown", "APPROVED"} \cup DOMAIN HOMEWORK_VERDICTS}
        \cup {List(<<>>)}

----------------------------------------------------------------------------
\* The body of main's loop.

NoResponse == [type |-> "none", val |-> <<>>]

\* the API is not modelled as a process: each fetch draws its answer
NoAnswer == [kind |-> "none"]

\* no function is applied on its own
NoArgument == [fn |-> "none", value |-> NoResponse]

NoDelivery == [kind |-> "none", text |-> "", homework |-> NoResponse, error |-> ""]

LoopState ==
    [timestamp |-> timestamp, last_status |-> last_status,
     last_error |-> last_error, delivered |-> delivered]

Call(path, message, transport, result) ==
    [path |-> path, message |-> message, transport |-> transport, result |-> result]

\* a loop without the check for an empty list
NoNewStatusesUnchecked(homeworks) ==
    FALSE

\* line 151: "if not homeworks"
NoNewStatuses(homeworks) ==
    homeworks.val = <<>>

\* a loop without de-duplication of statuses
StatusChangedAlways(homework) ==
    TRUE

\* line 158: the status is compared with the remembered status
StatusChanged(homework) ==
    homework.val.status # last_status

\* a loop that falls back to 0 instead of the current timestamp
NextTimestampDefaultZero(resp) ==
    GetDefault(resp, "current_date", 0)

\* line 161
NextTimestamp(resp) ==
    GetDefault(resp, "current_date", timestamp)

\* line 163: "except Exception"
Caught(e) ==
    e.type \in ExceptionClasses

\* line 164
FailureText(e) ==
    "Program failure: " \o PyStr(e)

\* a loop that compares the whole failure message with the remembered error
ErrorChangedByMessage(e) ==
    FailureText(e) # last_error

\* line 166: the error text is compared with the remembered error text
ErrorChanged(e) ==
    PyStr(e) # last_error

\* the outcome of the try block: the exception it raised (NoError when it
\* completed or left through continue) and the locals it leaves behind
TryOutcome(exc, resp, cs, status, t) ==
    [exc |-> exc, response |-> resp, calls |-> cs, last_status |-> status,
     timestamp |-> t]

\* lines 148-161
try_block(api, transport) ==
    LET answer == get_api_answer(timestamp, api)
    IN  IF Raised(answer)
        THEN TryOutcome(answer.exc, NoResponse, <<>>, last_status, timestamp)
        ELSE
    LET resp == answer.ret
        checked == check_response(resp)
    IN  IF Raised(checked)
        THEN TryOutcome(checked.exc, resp, <<>>, last_status, timestamp)
        ELSE
    LET homeworks == checked.ret
    IN  IF NoNewStatuses(homeworks)
        THEN TryOutcome(NoError, resp, <<>>, last_status, timestamp)
        ELSE
    LET item == GetItem(homeworks, 0)
    IN  IF Raised(item)
        THEN TryOutcome(item.exc, resp, <<>>, last_status, timestamp)
        ELSE
    LET homework == item.ret
        parsed == parse_status(homework)
    IN  IF Raised(parsed)
        THEN TryOutcome(parsed.exc, resp, <<>>, last_status, timestamp)
        ELSE IF ~StatusChanged(homework)
        THEN TryOutcome(NoError, resp, <<>>, last_status, timestamp)
        ELSE
    LET sent == send_message(transport)
    IN  IF Raised(sent)
        THEN TryOutcome(sent.exc, resp,
                        <<Call("status", parsed.ret, transport, FALSE)>>,
                        last_status, timestamp)
        ELSE IF sent.ret
        THEN TryOutcome(NoError, resp,
                        <<Call("status", parsed.ret, transport, TRUE)>>,
                        homework.val.status, NextTimestamp(resp))
        ELSE TryOutcome(NoError, resp,
                        <<Call("status", parsed.ret, transport, FALSE)>>,
                        last_status, timestamp)

\* a handler that remembers the error whether or not it was delivered
except_block_remembering(transport) ==
    IF ~Caught(error)
    THEN [exc |-> error, calls |-> <<>>, last_error |-> last_error]
    ELSE IF ~ErrorChanged(error)
    THEN [exc |-> NoError, calls |-> <<>>, last_error |-> last_error]
    ELSE
    LET message == FailureText(error)
        sent == send_message(transport)
    IN  IF Raised(sent)
        THEN [exc |-> sent.exc,
              calls |-> <<Call("failure", message, transport, FALSE)>>,
              last_error |-> last_error]
        ELSE [exc |-> NoError,
              calls |-> <<Call("failure", message, transport, sent.ret)>>,
              last_error |-> PyStr(error)]

\* lines 163-170: the exception still propagating afterwards (NoError when
\* the handler completed), the handler's call and last_error
except_block(transport) ==
    IF ~Caught(error)
    THEN [exc |-> error, calls |-> <<>>, last_error |-> last_error]
    ELSE IF ~ErrorChanged(error)
    THEN [exc |-> NoError, calls |-> <<>>, last_error |-> last_error]
    ELSE
    LET message == FailureText(error)
        sent == send_message(transport)
    IN  IF Raised(sent)
        THEN [exc |-> sent.exc,
              calls |-> <<Call("failure", message, transport, FALSE)>>,
              last_error |-> last_error]
        ELSE IF sent.ret
        THEN [exc |-> NoError,
              calls |-> <<Call("failure", message, transport, TRUE)>>,
              last_error |-> PyStr(error)]
        ELSE [exc |-> NoError,
              calls |-> <<Call("failure", message, transport, FALSE)>>,
              last_error |-> last_error]

\* the text the chat holds after the calls cs
RECURSIVE Delivered(_, _)
Delivered(text, cs) ==
    IF cs = <<>> THEN text
    ELSE Delivered(IF Head(cs).transport = "sent" THEN Head(cs).message ELSE text,
                   Tail(cs))

\* what the cycle delivered, as the next cycle sees it
RECURSIVE Summary(_, _)
Summary(sum, cs) ==
    IF cs = <<>> THEN sum
    ELSE Summary(IF Head(cs).result
                 THEN [kind |-> Head(cs).path,
                       text |-> Head(cs).message,
                       homework |-> IF Head(cs).path = "status"
                                    THEN response.val.homeworks.val[1]
                                    ELSE NoResponse,
                       error |-> IF Head(cs).path = "failure"
                                 THEN PyStr(error) ELSE ""]
                 ELSE sum,
                 Tail(cs))

----------------------------------------------------------------------------
\* The state machine.

Init ==
    /\ tokens \in [{TokenNames[i] : i \in DOMAIN TokenNames} -> TokenValues]
    /\ pc = "start"
    /\ exit = NoError
    /\ critical = None
    /\ timestamp \in StartTimes
    /\ last_error = None
    /\ last_status = None
    /\ response = NoResponse
    /\ error = NoError
    /\ propagating = FALSE
    /\ calls = <<>>
    /\ delivered = None
    /\ old = [timestamp |-> timestamp, last_status |-> None,
              last_error |-> None, delivered |-> None]
    /\ prev = NoDelivery
    /\ effects = {}
    /\ fetches = 0
    /\ sleeps = <<>>
    /\ api_answer = NoAnswer
    /\ fn_arg = NoArgument
    /\ fn_result = Return(None)

\* lines 139-144: check_tokens, then the loop is entered (the locals
\* timestamp, last_error and last_status hold their first values from Init on)
Startup ==
    /\ pc = "start"
    /\ LET checked == check_tokens(tokens)
       IN  /\ critical' = checked.critical
           /\ exit' = checked.exc
           /\ pc' = IF Raised(checked) THEN "aborted" ELSE "try"
    /\ UNCHANGED <<tokens, timestamp, last_error, last_status, response, error,
                   propagating, calls, delivered, old, prev, effects,
                   fetches, sleeps, api_answer, fn_arg, fn_result>>

\* a loop that sleeps at the end of its body instead of in a finally
\* block, so that continue goes straight to the next fetch
AfterTrySleepAtEnd(out) ==
    IF Raised(out) THEN "except"
    ELSE IF NoNewStatuses(out.response.val.homeworks) THEN "try"
    ELSE "finally"

\* lines 147, 153, 163, 171: an exception goes to the handler; the end of
\* the try block and continue both go to the finally block
AfterTry(out) ==
    IF Raised(out) THEN "except" ELSE "finally"

\* lines 147-161: one pass through the try block, given what the API
\* answers and what the transport does
TryStep(api, transport) ==
    /\ pc = "try"
    /\ \E out \in {try_block(api, transport)} :
           /\ response' = out.response
           /\ error' = out.exc
           /\ propagating' = Raised(out)
           /\ calls' = out.calls
           /\ last_status' = out.last_status
           /\ timestamp' = out.timestamp
           /\ delivered' = Delivered(delivered, out.calls)
           /\ effects' = effects \cup {"fetch"}
                             \cup (IF out.calls # <<>> THEN {"send"} ELSE {})
           /\ pc' = AfterTry(out)
    /\ fetches' = fetches + 1
    /\ sleeps' = <<>>
    /\ UNCHANGED <<tokens, exit, critical, last_error, old, prev,
                   api_answer, fn_arg, fn_result>>

TryBlock ==
    \E api \in ApiOutcomes, transport \in Transports : TryStep(api, transport)

\* lines 163-170: the exception handler
ExceptBlock ==
    /\ pc = "except"
    /\ \E transport \in Transports :
        LET out == except_block(transport)
        IN  /\ propagating' = Raised(out)
            /\ error' = IF Raised(out) THEN out.exc ELSE error
            /\ calls' = calls \o out.calls
            /\ last_error' = out.last_error
            /\ delivered' = Delivered(delivered, out.calls)
            /\ effects' = effects \cup (IF out.calls # <<>> THEN {"send"} ELSE {})
    /\ pc' = "finally"
    /\ UNCHANGED <<tokens, exit, critical, timestamp, last_status, response,
                   old, prev, fetches, sleeps, api_answer, fn_arg, fn_result>>

\* lines 171-172 and 146: the sleep of the finally block, then either the
\* next iteration or, if an exception is still propagating, the end of main
FinallyBlock ==
    /\ pc = "finally"
    /\ effects' = effects \cup {"sleep"}
    /\ pc' = IF propagating THEN "crashed" ELSE "try"
    /\ exit' = IF propagating THEN error ELSE exit
    /\ prev' = Summary(NoDelivery, calls)
    /\ old' = LoopState
    /\ response' = NoResponse
    /\ error' = NoError
    /\ propagating' = FALSE
    /\ calls' = <<>>
    /\ fetches' = 0
    /\ sleeps' = Append(sleeps, RETRY_PERIOD)
    /\ UNCHANGED <<tokens, critical, timestamp, last_error, last_status, delivered,
                   api_answer, fn_arg, fn_result>>

Next ==
    \/ Startup
    \/ TryBlock
    \/ ExceptBlock
    \/ FinallyBlock

Spec == Init /\ [][Next]_vars

----------------------------------------------------------------------------
\* The loop against an API that serves one answer cycle after cycle until
\* it changes, with a transport that does not fail for ever.

\* the first records the API serves here: hw1 under each verdict
RetryRecords ==
    {Homework("hw1", s) : s \in DOMAIN HOMEWORK_VERDICTS}

RetryAnswers ==
    {Answer(<<h>>, d) : h \in RetryRecords, d \in (-1)..MaxDate}
        \cup {HttpResponse(503, "Service Unavailable", "unavailable", InvalidJson)}

RetryInit ==
    /\ tokens = [name \in {TokenNames[i] : i \in DOMAIN TokenNames} |-> "secret"]
    /\ pc = "start"
    /\ exit = NoError
    /\ critical = None
    /\ timestamp \in StartTimes
    /\ last_error = None
    /\ last_status = None
    /\ response = NoResponse
    /\ error = NoError
    /\ propagating = FALSE
    /\ calls = <<>>
    /\ delivered = None
    /\ old = [timestamp |-> timestamp, last_status |-> None,
              last_error |-> None, delivered |-> None]
    /\ prev = NoDelivery
    /\ effects = {}
    /\ fetches = 0
    /\ sleeps = <<>>
    /\ api_answer \in RetryAnswers
    /\ fn_arg = NoArgument
    /\ fn_result = Return(None)

\* lines 147-161 with the answer the API holds at present
TryServed ==
    \E transport \in Transports : TryStep(api_answer, transport)

\* the pass through the try block whose send_message call gets through
TryDelivers ==
    TryStep(api_answer, "sent") /\ calls' # <<>>

\* between two cycles the API comes to hold another answer
ApiChanges ==
    /\ pc = "try"
    /\ api_answer' \in RetryAnswers \ {api_answer}
    /\ UNCHANGED <<tokens, pc, exit, critical, timestamp, last_error,
                   last_status, response, error, propagating, calls, delivered,
                   old, prev, effects, fetches, sleeps, fn_arg, fn_result>>

RetryNext ==
    \/ Startup
    \/ TryServed
    \/ ExceptBlock
    \/ FinallyBlock
    \/ ApiChanges

\* the loop keeps running (it is sequential and nothing blocks for ever),
\* and a send_message attempted again and again eventually gets through
RetrySpec ==
    /\ RetryInit
    /\ [][RetryNext]_vars
    /\ WF_vars(Startup)
    /\ WF_vars(TryServed)
    /\ WF_vars(ExceptBlock)
    /\ WF_vars(FinallyBlock)
    /\ SF_vars(TryDelivers)

----------------------------------------------------------------------------
\* check_response and parse_status applied on their own, to every argument
\* of ResponseInputs and HomeworkInputs.

FnInit ==
    /\ pc = "call"
    /\ fn_arg \in {[fn |-> "check_response", value |-> v] : v \in ResponseInputs}
                 \cup {[fn |-> "parse_status", value |-> v] : v \in HomeworkInputs}
    /\ fn_result = Return(None)
    /\ tokens = [name \in {TokenNames[i] : i \in DOMAIN TokenNames} |-> "secret"]
    /\ exit = NoError
    /\ critical = None
    /\ timestamp \in StartTimes
    /\ last_error = None
    /\ last_status = None
    /\ response = NoResponse
    /\ error = NoError
    /\ propagating = FALSE
    /\ calls = <<>>
    /\ delivered = None
    /\ old = [timestamp |-> timestamp, last_status |-> None,
              last_error |-> None, delivered |-> None]
    /\ prev = NoDelivery
    /\ effects = {}
    /\ fetches = 0
    /\ sleeps = <<>>
    /\ api_answer = NoAnswer

CallCheckResponse ==
    /\ pc = "call"
    /\ fn_arg.fn = "check_response"
    /\ fn_result' = check_response(fn_arg.value)
    /\ pc' = "returned"
    /\ UNCHANGED <<tokens, exit, critical, timestamp, last_error, last_status,
                   response, error, propagating, calls, delivered, old, prev,
                   effects, fetches, sleeps, api_answer, fn_arg>>

CallParseStatus ==
    /\ pc = "call"
    /\ fn_arg.fn = "parse_status"
    /\ fn_result' = parse_status(fn_arg.value)
    /\ pc' = "returned"
    /\ UNCHANGED <<tokens, exit, critical, timestamp, last_error, last_status,
                   response, error, propagating, calls, delivered, old, prev,
                   effects, fetches, sleeps, api_answer, fn_arg>>

FnNext ==
    \/ CallCheckResponse
    \/ CallParseStatus

FnSpec == FnInit /\ [][FnNext]_vars

----------------------------------------------------------------------------
\* Vocabulary of the properties.

InCycle == pc \in {"except", "finally"}

\* the cycle's response passed check_response
ValidResponse ==
    /\ response # NoResponse
    /\ ~Raised(check_response(response))

Homeworks == response.val.homeworks.val

\* the cycle has a first homework that parse_status accepts
FirstParsed ==
    /\ ValidResponse
    /\ Homeworks # <<>>
    /\ ~Raised(parse_status(Homeworks[1]))

FirstMessage == parse_status(Homeworks[1]).ret

----------------------------------------------------------------------------
\* C1: timestamp changes in a cycle only if the cycle fetched and validated a
\* response, its first homework gave a message that differs from the text
\* last delivered, and send_message returned True for it; the new value is
\* then the response's current_date. In every other cycle, and outside the
\* cycles, timestamp keeps the value it had at the start of the cycle.
C1_TimestampOnlyAfterDelivery ==
    timestamp # old.timestamp =>
        /\ pc = "finally"
        /\ error = NoError
        /\ FirstParsed
        /\ FirstMessage # old.delivered
        /\ calls = <<Call("status", FirstMessage, "sent", TRUE)>>
        /\ "current_date" \in DOMAIN response.val
        /\ timestamp = response.val.current_date

C1_Witness ==
    /\ pc = "finally"
    /\ timestamp # old.timestamp
    /\ old.delivered # None

----------------------------------------------------------------------------
\* C2: if the previous cycle delivered the status message of a homework and
\* this cycle's response has the same first homework record, this cycle
\* makes no send_message call; and no cycle sends the status text that the
\* previous cycle delivered.
C2_NoRepeatedStatus ==
    (InCycle /\ prev.kind = "status") =>
        /\ (FirstParsed /\ Homeworks[1] = prev.homework) =>
               (pc = "finally" /\ calls = <<>>)
        /\ \A i \in DOMAIN calls : calls[i].message # prev.text

C2_Witness ==
    /\ pc = "finally"
    /\ prev.kind = "status"
    /\ FirstParsed
    /\ Homeworks[1] = prev.homework
    /\ calls = <<>>

----------------------------------------------------------------------------
\* C3: if the previous cycle raised an exception and delivered its failure
\* message, and this cycle raises an exception with the identical error
\* text, this cycle makes no send_message call.
C3_NoRepeatedFailure ==
    (pc = "finally" /\ prev.kind = "failure" /\ error # NoError
        /\ PyStr(error) = prev.error) =>
        calls = <<>>

C3_Witness ==
    /\ pc = "finally"
    /\ prev.kind = "failure"
    /\ error # NoError
    /\ PyStr(error) = prev.error
    /\ calls = <<>>

----------------------------------------------------------------------------
\* C4: every exception raised in a cycle is caught by the loop, and its
\* failure message is sent whenever that message differs from the text most
\* recently delivered to the chat, of whatever kind.
C4_FailureRelayedWhenDistinct ==
    /\ pc # "crashed"
    /\ (pc = "finally" /\ error # NoError /\ FailureText(error) # old.delivered) =>
           \E i \in DOMAIN calls : calls[i].message = FailureText(error)

----------------------------------------------------------------------------
\* C5: the loop never ends because of a recoverable error: no cycle leaves an
\* exception unhandled, every position of the loop has a next step, and the
\* only state without a next step is the abort of check_tokens.
C5_LoopNeverTerminates ==
    /\ pc # "crashed"
    /\ (pc = "finally") => ~propagating
    /\ (pc \in {"try", "except", "finally"}) => ENABLED Next
    /\ (~ENABLED Next) => pc = "aborted"

\* a cycle that raised and whose failure notification was not delivered
\* stands before the sleep with nothing propagating
C5_Witness ==
    /\ pc = "finally"
    /\ error # NoError
    /\ "sleep" \in effects
    /\ \E i \in DOMAIN calls : ~calls[i].result

----------------------------------------------------------------------------
\* some configuration value is unset or empty
AnyTokenAbsent ==
    \E i \in DOMAIN TokenNames : tokens[TokenNames[i]] \in {None, ""}

\* C6: if any of the three configuration values is unset or empty, main
\* aborts in check_tokens and never fetches, sends or sleeps; if all three
\* are present main does not abort and the loop is entered.
C6_AbortBeforeLoop ==
    /\ AnyTokenAbsent =>
           /\ pc \in {"start", "aborted"}
           /\ effects = {}
           /\ calls = <<>>
    /\ (pc = "aborted") => (AnyTokenAbsent /\ ~ENABLED Next)
    /\ (~AnyTokenAbsent /\ pc = "start") => ENABLED (Startup /\ pc' = "try")

C6_Witness ==
    /\ pc = "aborted"
    /\ tokens["TELEGRAM_TOKEN"] = ""
    /\ tokens["PRACTICUM_TOKEN"] = "secret"
    /\ tokens["TELEGRAM_CHAT_ID"] = "secret"

----------------------------------------------------------------------------
\* the names of the configuration values that are unset or empty
AbsentTokens ==
    SelectSeq(TokenNames, LAMBDA name : tokens[name] \in {None, ""})

\* C7: for every set of missing configuration variables the loader raises
\* the typed missing-variable error naming exactly the missing variables,
\* and raises nothing when none is missing.
C7_TypedMissingVariableError ==
    (pc # "start") =>
        IF AbsentTokens = <<>>
        THEN pc # "aborted"
        ELSE /\ pc = "aborted"
             /\ exit.type = "MissingEnvironmentVariableError"
             /\ exit = MissingEnvironmentVariableError(AbsentTokens)

----------------------------------------------------------------------------
\* C8: a cycle whose validated response has an empty homeworks list sends
\* nothing, changes no loop state and stands before the sleep.
C8_EmptyListNoChange ==
    (InCycle /\ ValidResponse /\ Homeworks = <<>>) =>
        /\ pc = "finally"
        /\ error = NoError
        /\ ~propagating
        /\ calls = <<>>
        /\ LoopState = old
        /\ ENABLED FinallyBlock

C8_Witness ==
    /\ pc = "finally"
    /\ ValidResponse
    /\ Homeworks = <<>>
    /\ old.delivered # None

----------------------------------------------------------------------------
\* C9: in a cycle where the fetch succeeds, the response is valid, the first
\* homework has a name and an enumerated status, its message differs from
\* the text last delivered and no delivery fails, send_message is invoked
\* exactly once with that message, and timestamp becomes current_date if
\* present and keeps its value otherwise.
C9_NewStatusDeliveredOnce ==
    (InCycle /\ FirstParsed /\ FirstMessage # old.delivered
        /\ \A i \in DOMAIN calls : calls[i].transport = "sent") =>
        /\ pc = "finally"
        /\ calls = <<Call("status", FirstMessage, "sent", TRUE)>>
        /\ timestamp = GetDefault(response, "current_date", old.timestamp)

----------------------------------------------------------------------------
\* C10: send_message returns True exactly when the transport delivered and
\* False when it raised, never raising itself; a cycle with a failed
\* delivery keeps the loop state it started with and goes on to the sleep.
C10_DeliveryFailureSwallowed ==
    /\ \A i \in DOMAIN calls : calls[i].result = (calls[i].transport = "sent")
    /\ pc # "crashed"
    /\ (\E i \in DOMAIN calls : calls[i].transport = "raises") =>
           /\ pc = "finally"
           /\ ~propagating
           /\ LoopState = old
           /\ ENABLED FinallyBlock

C10_Witness ==
    /\ pc = "finally"
    /\ \E i \in DOMAIN calls : calls[i].path = "status" /\ ~calls[i].result
    /\ old.last_status # None

----------------------------------------------------------------------------
\* the first of the three rejections that applies to a response, if any
RejectionCase(v) ==
    IF v.type # "dict" THEN "not a mapping"
    ELSE IF "homeworks" \notin DOMAIN v.val THEN "no homeworks key"
    ELSE IF v.val.homeworks.type # "list" THEN "homeworks not a list"
    ELSE "valid"

\* C11: check_response raises a type error for a response that is not a
\* mapping, else a key error for one without homeworks, else a type error
\* for one whose homeworks is not a list, and otherwise returns the
\* homeworks value unchanged (the empty list too); responses of different
\* cases never give the same error.
C11_CheckResponse ==
    (pc = "returned" /\ fn_arg.fn = "check_response") =>
        LET v == fn_arg.value
            case == RejectionCase(v)
        IN  /\ (case = "not a mapping") => fn_result.exc.type = "TypeError"
            /\ (case = "no homeworks key") => fn_result.exc.type = "KeyError"
            /\ (case = "homeworks not a list") => fn_result.exc.type = "TypeError"
            /\ (case = "valid") => fn_result = Return(v.val.homeworks)
            /\ \A w \in ResponseInputs :
                   RejectionCase(w) # case => check_response(w).exc # fn_result.exc

C11_Witness ==
    /\ pc = "returned"
    /\ fn_arg.fn = "check_response"
    /\ RejectionCase(fn_arg.value) = "homeworks not a list"
    /\ "current_date" \in DOMAIN fn_arg.value.val
    /\ Raised(fn_result)

----------------------------------------------------------------------------
\* the name and status of a homework record, None where the key is absent
NameOf(h) ==
    IF "homework_name" \in DOMAIN h.val THEN h.val.homework_name ELSE None

StatusOf(h) ==
    IF "status" \in DOMAIN h.val THEN h.val.status ELSE None

Enumerated == {"approved", "reviewing", "rejected"}

\* C12: for a homework record, parse_status raises a key error when the name
\* is missing or empty, whatever the status; with a name it returns a message
\* for each of approved, reviewing, rejected and raises a value error naming
\* the status for any other or missing status; two accepted records that
\* differ in name or status give different messages.
C12_ParseStatus ==
    (pc = "returned" /\ fn_arg.fn = "parse_status" /\ fn_arg.value.type = "dict") =>
        LET h == fn_arg.value
        IN  IF NameOf(h) \in {None, ""}
            THEN fn_result.exc.type = "KeyError"
            ELSE IF StatusOf(h) \in Enumerated
            THEN /\ fn_result = Return(StatusText(NameOf(h),
                                                  HOMEWORK_VERDICTS[StatusOf(h)]))
                 /\ \A g \in HomeworkInputs :
                        (/\ g.type = "dict"
                         /\ NameOf(g) \notin {None, ""}
                         /\ StatusOf(g) \in Enumerated
                         /\ <<NameOf(g), StatusOf(g)>> # <<NameOf(h), StatusOf(h)>>)
                            => parse_status(g) # fn_result
            ELSE /\ fn_result.exc.type = "ValueError"
                 /\ fn_result.exc.arg =
                        "Unexpected homework status: " \o Str(StatusOf(h))

C12_Witness ==
    /\ pc = "returned"
    /\ fn_arg.fn = "parse_status"
    /\ fn_arg.value = Homework(None, "unknown")
    /\ fn_result.exc.type = "KeyError"

----------------------------------------------------------------------------
\* C13: in any cycle where the message of the first homework differs from
\* the text most recently delivered, delivery of that message is attempted.
C13_NewTextAttempted ==
    (InCycle /\ FirstParsed /\ FirstMessage # old.delivered) =>
        \E i \in DOMAIN calls :
            calls[i].path = "status" /\ calls[i].message = FirstMessage

----------------------------------------------------------------------------
\* C14: every cycle ends with exactly one sleep of RETRY_PERIOD before the
\* next fetch: a cycle under way has fetched once since the last sleep, the
\* finally block can always run, and each cycle after the first starts
\* right after one sleep of RETRY_PERIOD.
C14_OneSleepPerCycle ==
    /\ fetches <= 1
    /\ InCycle => (fetches = 1 /\ sleeps = <<>>)
    /\ (pc = "finally") => ENABLED FinallyBlock
    /\ (pc = "try") =>
           /\ fetches = 0
           /\ sleeps = IF "fetch" \in effects THEN <<RETRY_PERIOD>> ELSE <<>>

\* the next cycle starts after a cycle that left through continue and slept
C14_Witness ==
    /\ pc = "try"
    /\ sleeps = <<RETRY_PERIOD>>
    /\ effects = {"fetch", "sleep"}

----------------------------------------------------------------------------
\* what a pass through the try block sends and leaves behind
Effect(out) ==
    [exc |-> out.exc, calls |-> out.calls, last_status |-> out.last_status,
     timestamp |-> out.timestamp]

\* C15: only the first record of homeworks influences a cycle: at the start
\* of any cycle, a response makes the try block send the same message (or
\* none), raise the same exception (or none) and leave the same timestamp
\* and last_status as the response that holds its first record alone; the
\* handler and the sleep depend on nothing else of the response.
C15_OnlyFirstRecord ==
    (pc = "try") =>
        \A l \in HomeworkLists, d \in (-1)..MaxDate, t \in Transports :
            (Len(l) > 1) =>
                Effect(try_block(Answer(l, d), t))
                    = Effect(try_block(Answer(<<l[1]>>, d), t))

C15_Witness ==
    /\ pc = "finally"
    /\ FirstParsed
    /\ Len(Homeworks) > 1
    /\ Homeworks[2] = List(<<>>)
    /\ calls = <<Call("status", FirstMessage, "sent", TRUE)>>

----------------------------------------------------------------------------
\* the cycle tried to deliver a status notification and the transport failed
FailedDelivery ==
    /\ pc = "finally"
    /\ Len(calls) = 1
    /\ calls[1].path = "status"
    /\ calls[1].transport = "raises"

\* the API holds an answer whose first record is h
ServesFirst(h) ==
    \E d \in (-1)..MaxDate : api_answer = Answer(<<h>>, d)

\* the cycle delivered the notification of the first record h and took the
\* response's current_date, if it has one, as the timestamp
DeliveredFirst(h) ==
    /\ pc = "finally"
    /\ FirstParsed
    /\ Homeworks[1] = h
    /\ calls = <<Call("status", FirstMessage, "sent", TRUE)>>
    /\ last_status = h.val.status
    /\ timestamp = IF "current_date" \in DOMAIN response.val
                   THEN response.val.current_date
                   ELSE old.timestamp

\* C16: a failed delivery of a new status notification leaves the loop state
\* unchanged, and any later response with the same first record has the send
\* attempted again; while the API keeps serving that first record, and
\* given that a send attempted again and again eventually gets through, the
\* notification is eventually delivered and timestamp then moves to the
\* response's current_date (staying as it is when the response has none).
C16_RetryUntilDelivered ==
    /\ [](FailedDelivery =>
            /\ ~calls[1].result
            /\ LoopState = old
            /\ \A l \in HomeworkLists, d \in (-1)..MaxDate, t \in Transports :
                  (l # <<>> /\ l[1] = Homeworks[1]) =>
                      try_block(Answer(l, d), t).calls
                          = <<Call("status", calls[1].message, t, t = "sent")>>)
    /\ \A h \in RetryRecords :
           (FailedDelivery /\ Homeworks[1] = h)
               ~> (~ServesFirst(h) \/ DeliveredFirst(h))

\* a later cycle found a new status and failed to deliver it
C16_Witness ==
    /\ FailedDelivery
    /\ old.last_status # None
    /\ ~calls[1].result
    /\ "sleep" \in effects

----------------------------------------------------------------------------
\* C17: send_message is called at most once in a cycle; a cycle that sent a
\* status notification raises no exception and sends no failure notification.
C17_AtMostOneSend ==
    /\ Len(calls) <= 1
    /\ (\E i \in DOMAIN calls : calls[i].path = "status") =>
           (pc = "finally" /\ error = NoError)

C17_Witness ==
    /\ pc = "finally"
    /\ error = NoError
    /\ FirstParsed
    /\ calls = <<Call("status", FirstMessage, "raises", FALSE)>>

----------------------------------------------------------------------------
\* C18: a cycle that raised an exception leaves timestamp and last_status
\* alone, a cycle that raised none leaves last_error alone, neither memory
\* goes back to None, and each changes only with a send_message that
\* returned True in its own path, to the status or error text just sent.
C18_DisjointMemories ==
    /\ (error # NoError) =>
           (timestamp = old.timestamp /\ last_status = old.last_status)
    /\ (error = NoError) => last_error = old.last_error
    /\ (old.last_status # None) => last_status # None
    /\ (old.last_error # None) => last_error # None
    /\ (last_status # old.last_status) =>
           /\ FirstParsed
           /\ calls = <<Call("status", FirstMessage, "sent", TRUE)>>
           /\ last_status = Homeworks[1].val.status
    /\ (last_error # old.last_error) =>
           /\ calls = <<Call("failure", FailureText(error), "sent", TRUE)>>
           /\ last_error = PyStr(error)

C18_Witness ==
    /\ pc = "finally"
    /\ last_error # old.last_error
    /\ old.last_error # None
    /\ old.last_status # None

====
